---- MODULE Spec2Model ----
(***************************************************************************)
(* A model of the regular-expression engine of src/src/main.rs: the        *)
(* pattern compiler (Expression::try_from with Matcher::try_parse) and the *)
(* matcher (match_pattern, Expression::match_str, Matcher::match_some).    *)
(*                                                                         *)
(* Strings are sequences of one-character strings; indices in the state    *)
(* (pattern_index, input_index, offset) are 0-based as in the code.        *)
(***************************************************************************)
EXTENDS Integers, Sequences, FiniteSets, TLC

VARIABLES
    pattern,         \* the pattern given to Expression::try_from
    input_line,      \* the subject given to match_pattern
    pc,              \* "try_from" | "match_pattern" | "match_str" | "done" | "panic" | "hang" | "abort"
    pattern_index,   \* try_from: scan position in the pattern
    matchers,        \* try_from: the node sequence built so far; then Expression.matchers
    start_of_line,   \* try_from / Expression.start_of_line
    end_of_line,     \* try_from / Expression.end_of_line
    groups,          \* try_from: the stack of open Group frames
    closed_groups,   \* history: how many `)` the scan has accepted so far
    error,           \* "" or the Err(..) message try_from returned
    expression,      \* the Option of the Expression try_from returned: <<>> or <<e>>
    input_index,     \* match_pattern: the start offset of the current attempt
    offset,          \* match_str: the cursor inside the remainder
    node_index,      \* match_str: position of the `for m in &self.matchers` loop (1-based)
    matched_groups,  \* match_str: the capture list of the current attempt
    result           \* "none" | "match" | "no_match" | "error"

vars == <<pattern, input_line, pc, pattern_index, matchers, start_of_line, end_of_line,
          groups, closed_groups, error, expression, input_index, offset, node_index,
          matched_groups, result>>

\* ------------------------------------------------------------------ bounds
MaxLiteralLen == 3
MaxParenLen == 4
MaxRegexLen == 3
MaxSubjectLen == 3
MaxNamedSubjectLen == 4
\* how long a capture list the model follows a repeat that consumes nothing and
\* pushes a capture per iteration; the code goes on pushing until the memory of
\* the process is exhausted
MaxCaptures == 8

\* ------------------------------------------------------------ characters
LowerCase == {"a","b","c","d","e","f","g","h","i","j","k","l","m",
              "n","o","p","q","r","s","t","u","v","w","x","y","z"}
UpperCase == {"A","B","C","D","E","F","G","H","I","J","K","L","M",
              "N","O","P","Q","R","S","T","U","V","W","X","Y","Z"}
DigitChars == <<"0","1","2","3","4","5","6","7","8","9">>
Digits == {DigitChars[i] : i \in 1..10}

\* char::is_numeric on the ASCII characters of the model
is_numeric(c) == c \in Digits

DigitValue(c) == CHOOSE i \in 0..9 : DigitChars[i + 1] = c

\* str::parse::<usize> on a non-empty run of decimal digits (the patterns of the
\* model are far too short to overflow usize, so the parse always succeeds)
RECURSIVE parse(_)
parse(digits) ==
    IF digits = <<>> THEN 0
    ELSE parse(SubSeq(digits, 1, Len(digits) - 1)) * 10 + DigitValue(digits[Len(digits)])

\* &s[from..] with a 0-based start
slice_from(s, from) == SubSeq(s, from + 1, Len(s))

\* &s[from..to] with 0-based bounds, `to` exclusive
slice(s, from, to) == SubSeq(s, from + 1, to)

\* str::starts_with
starts_with(s, prefix) ==
    /\ Len(prefix) <= Len(s)
    /\ SubSeq(s, 1, Len(prefix)) = prefix

\* str::contains(char) on the set string of a bracket class
contains(g, c) == \E i \in 1..Len(g) : g[i] = c

\* str::find(char): the 0-based index of the first occurrence, or -1 for None
find(s, c) ==
    IF \E i \in 1..Len(s) : s[i] = c
    THEN (CHOOSE i \in 1..Len(s) : s[i] = c /\ \A j \in 1..(i - 1) : s[j] # c) - 1
    ELSE -1

\* ----------------------------------------------------------- enum Matcher
StartOfLine == [tag |-> "StartOfLine"]
EndOfLine == [tag |-> "EndOfLine"]
WordChar == [tag |-> "WordChar"]
Digit == [tag |-> "Digit"]
PositiveCharGroup(g) == [tag |-> "PositiveCharGroup", set |-> g]
NegativeCharGroup(g) == [tag |-> "NegativeCharGroup", set |-> g]
Literal(c) == [tag |-> "Literal", ch |-> c]
OneOrMore(m) == [tag |-> "OneOrMore", inner |-> m]
ZeroOrOne(m) == [tag |-> "ZeroOrOne", inner |-> m]
Wildcard == [tag |-> "Wildcard"]
GroupStart == [tag |-> "GroupStart"]
GroupEnd == [tag |-> "GroupEnd"]
Alteration == [tag |-> "Alteration"]
Group(left, right) == [tag |-> "Group", left |-> left, right |-> right]
Backreference(n) == [tag |-> "Backreference", n |-> n]

\* ------------------------------------------------- Option<usize> + effects
\* What a call of match_some leaves behind: Some(len) or None as the code returns
\* it, together with the shared capture list after the call (the RefCell is pushed
\* to by every group that matched on the way, whatever the call returns);
\* "Panic" when the call unwinds, "Hang" when it never returns, "Abort" when the
\* capture list grows until a push cannot allocate and the process is aborted
\* (the list of the record is then a prefix of the list the code has built).
Some(n, caps) == [kind |-> "Some", len |-> n, groups |-> caps]
None(caps) == [kind |-> "None", len |-> 0, groups |-> caps]
Panic(caps) == [kind |-> "Panic", len |-> 0, groups |-> caps]
Hang(caps) == [kind |-> "Hang", len |-> 0, groups |-> caps]
Abort(caps) == [kind |-> "Abort", len |-> 0, groups |-> caps]

then_some(cond, n, caps) == IF cond THEN Some(n, caps) ELSE None(caps)

RECURSIVE match_some(_, _, _)
RECURSIVE match_sequence_loop(_, _, _, _)
RECURSIVE match_group_for(_, _, _, _, _)

\* Matcher::match_sequence, the state of its `loop` being match_count and the
\* capture list.  An iteration in which the inner matcher returns Some(0) and
\* pushes no capture leaves that state exactly as it was: the loop repeats the
\* same iteration for ever and the call does not return.  An iteration that
\* returns Some(0) after pushing captures goes round again on the same remainder
\* with the longer list, and reads from the list what the iteration before read:
\* it pushes the same captures again, and so on until a push cannot allocate.
\* The model follows these iterations up to a list of MaxCaptures entries.
match_sequence_loop(matcher, string, caps, match_count) ==
    LET remainder == slice_from(string, match_count)
        r == match_some(matcher, remainder, caps)
    IN  CASE r.kind = "Some" /\ r.len > 0 ->
                match_sequence_loop(matcher, string, r.groups, match_count + r.len)
          [] r.kind = "Some" /\ r.len = 0 /\ r.groups = caps -> Hang(r.groups)
          [] r.kind = "Some" /\ r.len = 0 /\ r.groups # caps ->
                IF Len(r.groups) >= MaxCaptures THEN Abort(r.groups)
                ELSE match_sequence_loop(matcher, string, r.groups, match_count)
          [] r.kind = "None" ->
                IF match_count > 0 THEN Some(match_count, r.groups) ELSE None(r.groups)
          [] OTHER -> r

match_sequence(matcher, string, caps) == match_sequence_loop(matcher, string, caps, 0)

\* Matcher::match_group: the `for m in matchers` loop from position i on, then the
\* push of the capture
match_group_for(ms, i, string, caps, match_len) ==
    IF i > Len(ms)
    THEN Some(match_len, Append(caps, slice(string, 0, match_len)))
    ELSE LET remainder == slice_from(string, match_len)
             r == match_some(ms[i], remainder, caps)
         IN  IF r.kind = "Some"
             THEN match_group_for(ms, i + 1, string, r.groups, match_len + r.len)
             ELSE r

match_group(ms, string, caps) ==
    IF ms = <<>> THEN None(caps) ELSE match_group_for(ms, 1, string, caps, 0)

\* Matcher::match_some
match_some(m, string, caps) ==
    IF string = <<>> THEN None(caps)
    ELSE LET c == string[1] IN
      CASE m.tag \in {"StartOfLine", "EndOfLine", "GroupStart", "GroupEnd", "Alteration"} ->
              Some(0, caps)
        [] m.tag = "WordChar" ->
              then_some(c \in LowerCase \/ c \in UpperCase \/ c = "_", 1, caps)
        [] m.tag = "Digit" -> then_some(c \in Digits, 1, caps)
        [] m.tag = "PositiveCharGroup" -> then_some(contains(m.set, c), 1, caps)
        [] m.tag = "NegativeCharGroup" -> then_some(~contains(m.set, c), 1, caps)
        [] m.tag = "Literal" -> then_some(m.ch = c, 1, caps)
        [] m.tag = "OneOrMore" -> match_sequence(m.inner, string, caps)
        [] m.tag = "ZeroOrOne" ->
              LET r == match_some(m.inner, string, caps)
              IN  IF r.kind = "None" THEN Some(0, r.groups) ELSE r
        [] m.tag = "Wildcard" -> Some(1, caps)
        [] m.tag = "Group" ->
              LET l == match_group(m.left, string, caps)
              IN  IF l.kind = "None" THEN match_group(m.right, string, l.groups) ELSE l
        [] m.tag = "Backreference" ->
              \* matched_groups.borrow()[*n - 1]: `0 - 1` overflows usize and an index
              \* past the end of the Vec is out of bounds; the thread panics either way
              IF m.n - 1 < 0 \/ m.n - 1 >= Len(caps)
              THEN Panic(caps)
              ELSE then_some(starts_with(string, caps[m.n]), Len(caps[m.n]), caps)

\* ------------------------------------------------------------- try_parse
NoBackreference == [ok |-> FALSE, number |-> 0, len |-> 0]

\* the count of `.chars().skip(1).take_while(|c| c.is_numeric())`
number_size(p) ==
    IF \E k \in 2..Len(p) : ~is_numeric(p[k])
    THEN (CHOOSE k \in 2..Len(p) : ~is_numeric(p[k]) /\ \A j \in 2..(k - 1) : is_numeric(p[j])) - 2
    ELSE Len(p) - 1

\* Matcher::parse_backreference
parse_backreference(p) ==
    IF ~starts_with(p, <<"\\">>) THEN NoBackreference
    ELSE IF number_size(p) = 0 THEN NoBackreference
    ELSE [ok |-> TRUE,
          number |-> parse(slice(p, 1, number_size(p) + 1)),
          len |-> number_size(p) + 1]

NoMatcher == [ok |-> FALSE, m |-> Wildcard, len |-> 0]
Parsed(m, n) == [ok |-> TRUE, m |-> m, len |-> n]

\* matchers.last(): an Option, here a sequence of at most one node
last(ms) == IF ms = <<>> THEN <<>> ELSE <<ms[Len(ms)]>>

\* Matcher::try_parse
try_parse(p, previous) ==
    IF starts_with(p, <<"^">>) THEN Parsed(StartOfLine, 1)
    ELSE IF starts_with(p, <<"$">>) THEN Parsed(EndOfLine, 1)
    ELSE IF starts_with(p, <<"\\", "d">>) THEN Parsed(Digit, 2)
    ELSE IF starts_with(p, <<"\\", "w">>) THEN Parsed(WordChar, 2)
    ELSE IF parse_backreference(p).ok
         THEN Parsed(Backreference(parse_backreference(p).number), parse_backreference(p).len)
    ELSE IF starts_with(p, <<"[", "^">>)
         THEN IF find(p, "]") < 0 THEN NoMatcher
              ELSE Parsed(NegativeCharGroup(slice(p, 2, find(p, "]"))), find(p, "]") + 1)
    ELSE IF starts_with(p, <<"[">>)
         THEN IF find(p, "]") < 0 THEN NoMatcher
              ELSE Parsed(PositiveCharGroup(slice(p, 1, find(p, "]"))), find(p, "]") + 1)
    ELSE IF starts_with(p, <<"+">>)
         THEN IF previous = <<>> THEN NoMatcher ELSE Parsed(OneOrMore(previous[1]), 1)
    ELSE IF starts_with(p, <<"?">>)
         THEN IF previous = <<>> THEN NoMatcher ELSE Parsed(ZeroOrOne(previous[1]), 1)
    ELSE IF starts_with(p, <<".">>) THEN Parsed(Wildcard, 1)
    ELSE IF starts_with(p, <<"(">>) THEN Parsed(GroupStart, 1)
    ELSE IF starts_with(p, <<")">>) THEN Parsed(GroupEnd, 1)
    ELSE IF starts_with(p, <<"|">>) THEN Parsed(Alteration, 1)
    ELSE IF p = <<>> THEN NoMatcher
    ELSE Parsed(Literal(p[1]), 1)

\* ------------------------------------------------------------------ inputs
Words(alphabet, n) == UNION {[1..k -> alphabet] : k \in 0..n}

LiteralAlphabet == {"a", "b"}
ParenAlphabet == {"a", "(", ")"}
RegexAlphabet == {"a", "(", ")", "|", "?", "+", "\\", "1"}
SubjectAlphabet == {"a", "b"}

BackrefPattern == <<"(", "[", "a", "b", "c", "]", "+", ")", "-", "\\", "1">>
AnchoredPattern == <<"^", "a", "b", "c", "$">>
LeakPattern == <<"(", "(", "a", ")", "c", "|", "a", "b", ")", "\\", "1">>
NestedBackrefPattern == <<"(", "(", "a", ")", ")", "\\", "2">>
AltBackrefPattern == <<"(", "(", "a", ")", "|", "\\", "1", ")">>
OptionalPattern == <<"a", "b", "?">>
UnclosedPattern == <<"(", "a", "b", "c">>
QuantifiedBackrefPattern == <<"(", "a", ")", "+", "\\", "1">>

NamedPatterns ==
    { BackrefPattern, AnchoredPattern, LeakPattern, NestedBackrefPattern,
      AltBackrefPattern, OptionalPattern, UnclosedPattern, QuantifiedBackrefPattern,
      <<"\\", "0">>,
      <<"$">>,
      <<"(", "a", "?", ")", "+">>,
      <<"(", "a", "|", "b", "|", "c", ")">>,
      <<"a", "|", "b">>,
      <<"(", "a", "|", "b", ")">>,
      <<"[", "^", "a", "]", "+">>,
      <<"[", "a">>,
      <<"\\", "d", "\\", "w", ".">> }

GenericPatterns ==
    Words(LiteralAlphabet, MaxLiteralLen) \cup Words(ParenAlphabet, MaxParenLen)
        \cup Words(RegexAlphabet, MaxRegexLen)

CabCab == <<"c", "a", "b", "-", "c", "a", "b">>
CabAbc == <<"c", "a", "b", "-", "a", "b", "c">>

NamedSubjects ==
    { CabCab, CabAbc, <<"a", "b", "a", "b">>, <<"x", "a", "b", "c">>, <<"a", "1", "_">> }
        \cup Words({"a", "b", "c"}, MaxNamedSubjectLen)

GenericSubjects == Words(SubjectAlphabet, MaxSubjectLen)

Inputs ==
    (GenericPatterns \X GenericSubjects)
        \cup (NamedPatterns \X (GenericSubjects \cup NamedSubjects))

\* --------------------------------------------------- Expression::try_from
Init ==
    /\ \E in \in Inputs : pattern = in[1] /\ input_line = in[2]
    /\ pc = "try_from"
    /\ pattern_index = 0
    /\ matchers = <<>>
    /\ start_of_line = FALSE
    /\ end_of_line = FALSE
    /\ groups = <<>>
    /\ closed_groups = 0
    /\ error = ""
    /\ expression = <<>>
    /\ input_index = 0
    /\ offset = 0
    /\ node_index = 1
    /\ matched_groups = <<>>
    /\ result = "none"

matchUnchanged == UNCHANGED <<input_index, offset, node_index, matched_groups>>

\* the head of `while pattern_index < value.len()` with the token parsed there
Scanning == pc = "try_from" /\ pattern_index < Len(pattern)
Token == try_parse(slice_from(pattern, pattern_index), last(matchers))

\* return Err(msg)
Err(msg) ==
    /\ error' = msg
    /\ result' = "error"
    /\ pc' = "done"
    /\ UNCHANGED <<pattern, input_line, pattern_index, matchers, start_of_line,
                   end_of_line, groups, closed_groups, expression>>
    /\ matchUnchanged

\* a token accepted: the scan goes on behind it
Advance ==
    /\ pattern_index' = pattern_index + Token.len
    /\ UNCHANGED <<pattern, input_line, pc, error, expression, result>>
    /\ matchUnchanged

ScanStartOfLine ==
    /\ Scanning /\ Token.ok /\ Token.m.tag = "StartOfLine"
    /\ start_of_line' = TRUE
    /\ Advance
    /\ UNCHANGED <<matchers, end_of_line, groups, closed_groups>>

ScanEndOfLine ==
    /\ Scanning /\ Token.ok /\ Token.m.tag = "EndOfLine"
    /\ end_of_line' = TRUE
    /\ Advance
    /\ UNCHANGED <<matchers, start_of_line, groups, closed_groups>>

ScanGroupStart ==
    /\ Scanning /\ Token.ok /\ Token.m.tag = "GroupStart"
    /\ groups' = Append(groups, [start_index |-> Len(matchers), alternative_index |-> <<>>])
    /\ Advance
    /\ UNCHANGED <<matchers, start_of_line, end_of_line, closed_groups>>

ScanAlteration ==
    /\ Scanning /\ Token.ok /\ Token.m.tag = "Alteration"
    /\ IF groups = <<>> THEN Err("Alteration not in group")
       ELSE IF groups[Len(groups)].alternative_index # <<>>
       THEN Err("Double alteration in group")
       ELSE /\ groups' = [groups EXCEPT ![Len(groups)].alternative_index = <<Len(matchers)>>]
            /\ Advance
            /\ UNCHANGED <<matchers, start_of_line, end_of_line, closed_groups>>

\* Vec::split_off(at): what stays, what is returned
keep(ms, at) == SubSeq(ms, 1, at)
split_off(ms, at) == SubSeq(ms, at + 1, Len(ms))

ScanGroupEnd ==
    /\ Scanning /\ Token.ok /\ Token.m.tag = "GroupEnd"
    /\ IF groups = <<>> THEN Err("Stray )")
       ELSE LET group == groups[Len(groups)]
                alternative_index ==
                    IF group.alternative_index = <<>> THEN Len(matchers)
                    ELSE group.alternative_index[1]
                right == split_off(matchers, alternative_index)
                rest == keep(matchers, alternative_index)
                left == split_off(rest, group.start_index)
            IN  /\ groups' = SubSeq(groups, 1, Len(groups) - 1)
                /\ matchers' = Append(keep(rest, group.start_index), Group(left, right))
                /\ closed_groups' = closed_groups + 1
                /\ Advance
                /\ UNCHANGED <<start_of_line, end_of_line>>

ScanQuantifier ==
    /\ Scanning /\ Token.ok /\ Token.m.tag \in {"OneOrMore", "ZeroOrOne"}
    /\ matchers' = Append(SubSeq(matchers, 1, Len(matchers) - 1), Token.m)
    /\ Advance
    /\ UNCHANGED <<start_of_line, end_of_line, groups, closed_groups>>

\* matchers.iter().filter(|m| matches!(m, Matcher::Group(_, _))).count()
group_count(ms) == Cardinality({i \in 1..Len(ms) : ms[i].tag = "Group"})

ScanBackreference ==
    /\ Scanning /\ Token.ok /\ Token.m.tag = "Backreference"
    /\ IF group_count(matchers) < Token.m.n THEN Err("Invalid back reference")
       ELSE /\ matchers' = Append(matchers, Token.m)
            /\ Advance
            /\ UNCHANGED <<start_of_line, end_of_line, groups, closed_groups>>

ScanOther ==
    /\ Scanning /\ Token.ok
    /\ Token.m.tag \in {"WordChar", "Digit", "PositiveCharGroup", "NegativeCharGroup",
                        "Literal", "Wildcard"}
    /\ matchers' = Append(matchers, Token.m)
    /\ Advance
    /\ UNCHANGED <<start_of_line, end_of_line, groups, closed_groups>>

ScanFail ==
    /\ Scanning /\ ~Token.ok
    /\ Err("Failed to parse a matcher")

\* an end of scan that does not look at the stack of open groups
Finish_unchecked ==
    /\ pc = "try_from" /\ pattern_index >= Len(pattern)
    /\ expression' = <<[matchers |-> matchers,
                        start_of_line |-> start_of_line,
                        end_of_line |-> end_of_line]>>
    /\ pc' = "match_pattern"
    /\ UNCHANGED <<pattern, input_line, pattern_index, matchers, start_of_line,
                   end_of_line, groups, closed_groups, error, result>>
    /\ matchUnchanged

\* the end of the scan, and main's match on the Result
Finish ==
    /\ pc = "try_from" /\ pattern_index >= Len(pattern)
    /\ IF groups # <<>> THEN Err("Unclosed group")
       ELSE /\ expression' = <<[matchers |-> matchers,
                                start_of_line |-> start_of_line,
                                end_of_line |-> end_of_line]>>
            /\ pc' = "match_pattern"
            /\ UNCHANGED <<pattern, input_line, pattern_index, matchers, start_of_line,
                           end_of_line, groups, closed_groups, error, result>>
            /\ matchUnchanged

\* ---------------------------------------------------------- match_pattern
compileUnchanged ==
    UNCHANGED <<pattern, input_line, pattern_index, matchers, start_of_line, end_of_line,
                groups, closed_groups, error, expression>>

\* a search that gives up after the first offset whatever the pattern says
from_start_always == TRUE

\* Expression::from_start_of_string
from_start_of_string == expression[1].start_of_line

\* an end anchor that is recorded but never enforced
till_end_never == FALSE

\* Expression::till_end_of_string
till_end_of_string == expression[1].end_of_line

\* `if input_line.is_empty() { return false; }`
ReturnEmpty ==
    /\ pc = "match_pattern" /\ input_line = <<>>
    /\ result' = "no_match"
    /\ pc' = "done"
    /\ compileUnchanged /\ matchUnchanged

\* the loop head with input_index < input_line.len(): match_str is entered on the
\* remainder with offset 0 and a fresh capture list
StartAttempt ==
    /\ pc = "match_pattern" /\ input_line # <<>>
    /\ input_index < Len(input_line)
    /\ pc' = "match_str"
    /\ offset' = 0
    /\ node_index' = 1
    /\ matched_groups' = <<>>
    /\ compileUnchanged
    /\ UNCHANGED <<input_index, result>>

\* the loop left with input_index = input_line.len(): the final `false`
Exhausted ==
    /\ pc = "match_pattern" /\ input_line # <<>>
    /\ input_index >= Len(input_line)
    /\ result' = "no_match"
    /\ pc' = "done"
    /\ compileUnchanged /\ matchUnchanged

\* match_str returned false: match_pattern returns false under the start anchor and
\* moves to the next offset otherwise
AttemptFailed ==
    /\ IF from_start_of_string
       THEN /\ result' = "no_match"
            /\ pc' = "done"
            /\ UNCHANGED input_index
       ELSE /\ input_index' = input_index + 1
            /\ pc' = "match_pattern"
            /\ UNCHANGED result
    /\ compileUnchanged
    /\ UNCHANGED <<offset, node_index>>

\* ------------------------------------------------- Expression::match_str
\* the `input` of match_str: the remainder match_pattern passes
input == slice_from(input_line, input_index)

\* inside `for m in &self.matchers`
Walking == pc = "match_str" /\ node_index <= Len(expression[1].matchers)

\* the call of m.match_some(remaining_input, &mut matched_groups)
Shift == match_some(expression[1].matchers[node_index], slice_from(input, offset),
                    matched_groups)

\* `if offset >= input.len() { return false; }`
WalkOutOfInput ==
    /\ Walking /\ offset >= Len(input)
    /\ AttemptFailed
    /\ UNCHANGED matched_groups

WalkNode ==
    /\ Walking /\ offset < Len(input)
    /\ Shift.kind = "Some"
    /\ offset' = offset + Shift.len
    /\ node_index' = node_index + 1
    /\ matched_groups' = Shift.groups
    /\ compileUnchanged
    /\ UNCHANGED <<pc, input_index, result>>

WalkNodeFail ==
    /\ Walking /\ offset < Len(input)
    /\ Shift.kind = "None"
    /\ matched_groups' = Shift.groups
    /\ AttemptFailed

\* match_some unwinds: the process aborts with a panic
WalkPanic ==
    /\ Walking /\ offset < Len(input)
    /\ Shift.kind = "Panic"
    /\ pc' = "panic"
    /\ matched_groups' = Shift.groups
    /\ compileUnchanged
    /\ UNCHANGED <<input_index, offset, node_index, result>>

\* match_some does not return: the loop of match_sequence repeats one iteration
\* for ever
WalkHang ==
    /\ Walking /\ offset < Len(input)
    /\ Shift.kind = "Hang"
    /\ pc' = "hang"
    /\ matched_groups' = Shift.groups
    /\ compileUnchanged
    /\ UNCHANGED <<input_index, offset, node_index, result>>

\* match_some does not return: the loop of match_sequence pushes captures without
\* consuming anything until a push cannot allocate and the process is aborted;
\* matched_groups keeps the first captures of that list
WalkAbort ==
    /\ Walking /\ offset < Len(input)
    /\ Shift.kind = "Abort"
    /\ pc' = "abort"
    /\ matched_groups' = Shift.groups
    /\ compileUnchanged
    /\ UNCHANGED <<input_index, offset, node_index, result>>

\* after the loop: the end-of-line test, and match_pattern's `return true`
WalkEnd ==
    /\ pc = "match_str" /\ node_index > Len(expression[1].matchers)
    /\ IF (IF till_end_of_string THEN offset >= Len(input) ELSE TRUE)
       THEN /\ result' = "match"
            /\ pc' = "done"
            /\ compileUnchanged /\ matchUnchanged
       ELSE /\ AttemptFailed
            /\ UNCHANGED matched_groups

Next ==
    \/ ScanStartOfLine
    \/ ScanEndOfLine
    \/ ScanGroupStart
    \/ ScanAlteration
    \/ ScanGroupEnd
    \/ ScanQuantifier
    \/ ScanBackreference
    \/ ScanOther
    \/ ScanFail
    \/ Finish
    \/ ReturnEmpty
    \/ StartAttempt
    \/ Exhausted
    \/ WalkOutOfInput
    \/ WalkNode
    \/ WalkNodeFail
    \/ WalkPanic
    \/ WalkHang
    \/ WalkAbort
    \/ WalkEnd

Spec == Init /\ [][Next]_vars

\* ================================================================== claims
\* the run is over: try_from returned Err, match_pattern returned, or the process
\* panicked, was aborted or spins for ever
Ended == pc \in {"done", "panic", "hang", "abort"}

Metacharacters == {"^", "$", "\\", "[", "]", "+", "?", ".", "(", ")", "|"}

IsLiteralPattern(p) == \A i \in 1..Len(p) : p[i] \notin Metacharacters

\* s contains p as a contiguous substring
IsSubstring(p, s) ==
    \E k \in 0..(Len(s) - Len(p)) : SubSeq(s, k + 1, k + Len(p)) = p

\* C1: for every pattern of literal characters only and every subject, compilation
\* succeeds and match_pattern returns true exactly when the subject contains the
\* pattern as a contiguous substring.
C1_LiteralIsSubstring ==
    (Ended /\ IsLiteralPattern(pattern)) =>
        /\ pc = "done"
        /\ error = ""
        /\ (result = "match") <=> IsSubstring(pattern, input_line)

\* C2 as stated: `([abc]+)-\1` matches "cab-cab" and does not match "cab-abc"
\* under the unanchored search of match_pattern.
C2_Original ==
    (pc = "done" /\ pattern = BackrefPattern) =>
        /\ input_line = CabCab => result = "match"
        /\ input_line = CabAbc => result = "no_match"

\* C2 as amended: `([abc]+)-\1` matches "cab-cab" at offset 0 with the capture
\* "cab", and it matches "cab-abc" too: there the attempt at offset 0 fails and the
\* attempt at offset 1 succeeds with the capture "ab" ("ab-ab").
C2_BackrefSearch ==
    (Ended /\ pattern = BackrefPattern /\ input_line \in {CabCab, CabAbc}) =>
        /\ pc = "done"
        /\ result = "match"
        /\ input_line = CabCab =>
              input_index = 0 /\ matched_groups = <<<<"c", "a", "b">>>>
        /\ input_line = CabAbc =>
              input_index = 1 /\ matched_groups = <<<<"a", "b">>>>

C2_Witness ==
    pc = "done" /\ pattern = BackrefPattern /\ input_line = CabAbc /\ result = "match"

\* C3: matching never errors; whenever a Backreference(n) node is evaluated, n is
\* at least 1 and the capture list of the attempt holds at least n entries.
C3_MatchingNeverErrors ==
    /\ pc \notin {"panic", "abort"}
    /\ (Walking /\ offset < Len(input)
            /\ expression[1].matchers[node_index].tag = "Backreference") =>
          LET n == expression[1].matchers[node_index].n
          IN  n >= 1 /\ Len(matched_groups) >= n

\* C4: a backreference \n is accepted exactly when n does not exceed the number
\* of groups whose `)` has been scanned before it (nested and quantified groups
\* counted as well); otherwise compilation fails with the invalid-backreference
\* error.
C4_BackrefAcceptedIffClosed ==
    [][ScanBackreference =>
          ((error' = "Invalid back reference") <=> (Token.m.n > closed_groups))]_vars

\* the nesting depth after the first k characters of a pattern of literals and
\* parentheses
Depth(p, k) ==
    Cardinality({i \in 1..k : p[i] = "("}) - Cardinality({i \in 1..k : p[i] = ")"})

IsParenPattern(p) == \A i \in 1..Len(p) : p[i] \notin (Metacharacters \ {"(", ")"})

\* what the claim says compilation of a pattern of literals and parentheses gives
ParenOutcome(p) ==
    IF \E k \in 1..Len(p) : Depth(p, k) < 0 THEN "Stray )"
    ELSE IF Depth(p, Len(p)) > 0 THEN "Unclosed group"
    ELSE ""

\* C5: open groups are tracked as a stack; the end of the scan with a group still
\* open gives the unclosed-group error, a `)` scanned with no group open gives the
\* stray-close error, a balanced pattern of literals and parentheses compiles, and
\* a failed compilation produces no Expression.
C5_GroupStack ==
    /\ (pc = "try_from" /\ IsParenPattern(pattern)) =>
          Len(groups) = Depth(pattern, pattern_index)
    /\ (pc # "try_from" /\ pattern_index >= Len(pattern) /\ groups # <<>>) =>
          error = "Unclosed group"
    /\ (pc # "try_from" /\ pattern_index < Len(pattern) /\ Token.ok
            /\ Token.m.tag = "GroupEnd" /\ groups = <<>>) =>
          error = "Stray )"
    /\ (pc # "try_from" /\ IsParenPattern(pattern)) => error = ParenOutcome(pattern)
    /\ (pc # "try_from") => ((error # "") <=> (expression = <<>>))
    /\ (error # "") => (pc = "done" /\ result = "error")

C5_Witness ==
    pc = "done" /\ pattern = UnclosedPattern /\ error = "Unclosed group"
        /\ expression = <<>>

\* C6: `^abc$` matches a subject exactly when the subject is `abc`; only offset 0
\* is attempted, and a successful attempt ends with the cursor at the end of the
\* subject.
C6_AnchoredExact ==
    (pattern = AnchoredPattern) =>
        /\ input_index = 0
        /\ Ended =>
            /\ pc = "done"
            /\ error = ""
            /\ (result = "match") <=> (input_line = <<"a", "b", "c">>)
            /\ (result = "match") => (offset = Len(input_line))

C6_Witness ==
    pc = "done" /\ pattern = AnchoredPattern /\ input_line = <<"a", "b", "c">>
        /\ result = "match" /\ offset = 3

\* C7: without the start anchor match_pattern attempts every offset from 0 up to
\* and including the subject length; the offset equal to the subject length is a
\* candidate, so an expression with no nodes (the empty pattern, or `$` alone) is
\* attempted there, also for the empty subject, and matches.
C7_EveryOffsetToLength ==
    (pc = "done" /\ error = "" /\ ~expression[1].start_of_line) =>
        /\ (result = "no_match") => (input_index = Len(input_line) + 1)
        /\ (expression[1].matchers = <<>>) => (result = "match")

\* C8: an Optional node never fails: at every cursor position, the empty tail
\* included, it returns the inner node's length if the inner node matches and 0
\* otherwise; so `ab?` matches the subject `a`.
C8_OptionalNeverFails ==
    /\ (Walking /\ expression[1].matchers[node_index].tag = "ZeroOrOne") =>
          LET m == expression[1].matchers[node_index]
              tail == slice_from(input, offset)
              got == match_some(m, tail, matched_groups)
              inner == match_some(m.inner, tail, matched_groups)
          IN  /\ got.kind # "None"
              /\ (inner.kind = "None") => (got.kind = "Some" /\ got.len = 0)
              /\ (inner.kind = "Some") => (got = inner)
    /\ (pc = "done" /\ pattern = OptionalPattern /\ input_line = <<"a">>) =>
          result = "match"

\* C9: matching always terminates, also when the inner node of a Repeat1 can
\* succeed on 0 characters (`a?+`, `(a?)+`).
C9_MatchingTerminates == pc \notin {"hang", "abort"}

\* C10: a capture is added only for a group alternative that matched in full: a
\* Group that fails, or whose left alternative fails, leaves the capture list as
\* it was before that alternative; in `((a)c|ab)\1` on `abab` capture 1 is not the
\* `a` of the failed left alternative.
C10_FailedAlternativeLeavesCaptures ==
    /\ (Walking /\ offset < Len(input)
            /\ expression[1].matchers[node_index].tag = "Group") =>
          LET m == expression[1].matchers[node_index]
              tail == slice_from(input, offset)
              l == match_group(m.left, tail, matched_groups)
          IN  /\ (l.kind = "None") => (l.groups = matched_groups)
              /\ (Shift.kind = "None") => (Shift.groups = matched_groups)
    /\ (pc = "done" /\ pattern = LeakPattern /\ result = "match"
            /\ input_line = <<"a", "b", "a", "b">>) =>
          matched_groups[1] # <<"a">>

====
